---- MODULE Spec2Model ----
(***************************************************************************)
(* Clinical Referral Lab Management API (src/main.py): the credential and  *)
(* token model, the role gate applied to every protected route, and the    *)
(* handlers over the five document collections.                            *)
(*                                                                         *)
(* The document store is a map from collection name to the sequence of its *)
(* documents in insertion order; find_one returns the first match.  The    *)
(* async handlers make no await between their store calls, so each is one  *)
(* step; register_user and seed_admin are plain def handlers that run in   *)
(* the worker thread pool, so their store calls interleave.                *)
(***************************************************************************)
EXTENDS Integers, Sequences, FiniteSets, TLC

VARIABLES
    db,          \* collection name -> sequence of documents
    idCtr,       \* number of ObjectIds generated so far
    now,         \* the clock read by datetime.now
    tokens,      \* the bearer tokens issued so far (held by clients)
    threads,     \* worker thread -> position in register_user / seed_admin
    last,        \* the last completed exchange: request and response
    registered,  \* history: the accepted registrations, as the client saw them
    seedCreated, \* history: number of users inserted by seed_admin
    envSteps,    \* number of direct store edits of user records so far
    quota        \* number of protected requests the clients may still send

vars == <<db, idCtr, now, tokens, threads, last, registered, seedCreated, envSteps, quota>>

----------------------------------------------------------------------------
\* Bounds of the model

NThreads == 2
MaxRegisterRequests == 2
MaxGateRequests == 1
MaxResourceRequests == 3
MaxEnvSteps == 1

Threads == 1..NThreads

----------------------------------------------------------------------------
\* Program constants

SECRET_KEY == "supersecretkey"
ACCESS_TOKEN_EXPIRE_MINUTES == 720

Roles == {"admin", "hospital_staff", "lab_tech", "viewer"}

None == "None"
SeedName == "Super Admin"
SeedEmail == "admin@lab.local"
SeedPassword == "admin123"

Collections == {"user", "patient", "testcatalog", "referral", "testresult"}

----------------------------------------------------------------------------
\* ObjectId, password hashing, tokens, serialisation

\* str(ObjectId) of the n-th generated id
OidStr(n) == "oid" \o ToString(n)

\* a well-formed id that the store never assigns (the counter starts at 1)
AbsentOid == OidStr(0)
MalformedId == "not-an-objectid"

\* ObjectId(s) raises InvalidId unless s has the ObjectId format
ObjectIdValid(s) == s \in {OidStr(n) : n \in 0..(idCtr + 1)}

hash_password(password) == "$2b$" \o password

verify_password(plain_password, hashed_password) ==
    hashed_password = hash_password(plain_password)

\* a token that carries the default role instead of the user's
create_access_token_default_role(sub, role) ==
    [sub |-> sub, role |-> "viewer", exp |-> now + ACCESS_TOKEN_EXPIRE_MINUTES,
     sig |-> SECRET_KEY]

\* jwt.encode of the claims with exp = now + ttl, signed with SECRET_KEY
create_access_token(sub, role) ==
    [sub |-> sub, role |-> role, exp |-> now + ACCESS_TOKEN_EXPIRE_MINUTES,
     sig |-> SECRET_KEY]

\* jwt.decode: JWTError on a bad signature or a passed expiry
JwtDecodeOk(token) == token.sig = SECRET_KEY /\ token.exp >= now

isoformat(t) == "T" \o ToString(t)

\* _id becomes the string id; datetimes become their iso text
serialize_doc(doc) ==
    LET keys == (DOMAIN doc \ {"_id"}) \cup (IF "_id" \in DOMAIN doc THEN {"id"} ELSE {})
    IN  [k \in keys |->
            IF k = "id" THEN doc["_id"]
            ELSE IF k \in {"created_at", "updated_at"} THEN isoformat(doc[k])
            ELSE doc[k]]

----------------------------------------------------------------------------
\* Store operations

\* index of the first document of coll whose field equals value, 0 if none
FindIn(docs, field, value) ==
    LET hits == {i \in 1..Len(docs) : docs[i][field] = value}
    IN  IF hits = {} THEN 0 ELSE CHOOSE i \in hits : \A j \in hits : i <= j

FindOne(coll, field, value) == FindIn(db[coll], field, value)

CountDocuments(coll, field, value) ==
    Cardinality({i \in 1..Len(db[coll]) : db[coll][i][field] = value})

\* insert_one: the store assigns the next ObjectId
InsertOne(coll, doc) ==
    /\ db' = [db EXCEPT ![coll] = Append(@, doc @@ [_id |-> OidStr(idCtr + 1)])]
    /\ idCtr' = idCtr + 1

\* an update that inserts the document when none matches (upsert=True)
UpdateOneSetUpsert(coll, id, update) ==
    LET i == FindOne(coll, "_id", id)
    IN  IF i = 0 THEN [db EXCEPT ![coll] = Append(@, update @@ [_id |-> id])]
        ELSE [db EXCEPT ![coll][i] = update @@ @]

\* update_one / find_one_and_update with $set, no upsert
UpdateOneSet(coll, id, update) ==
    LET i == FindOne(coll, "_id", id)
    IN  IF i = 0 THEN db
        ELSE [db EXCEPT ![coll][i] = update @@ @]

DeleteOne(coll, id) ==
    LET i == FindOne(coll, "_id", id)
    IN  IF i = 0 THEN db
        ELSE [db EXCEPT ![coll] =
                 [k \in 1..(Len(@) - 1) |-> IF k < i THEN @[k] ELSE @[k + 1]]]

----------------------------------------------------------------------------
\* Access control

\* get_current_user: 401 unless the token decodes and names a stored,
\* active user; the stored record, not the token, is what is returned
get_current_user(token) ==
    IF ~JwtDecodeOk(token) THEN 401
    ELSE LET i == FindOne("user", "_id", token.sub)
         IN  IF i = 0 THEN 401
             ELSE IF ~db["user"][i].is_active THEN 401
             ELSE 200

CurrentUser(token) == serialize_doc(db["user"][FindOne("user", "_id", token.sub)])

\* a role check that trusts the role embedded in the token
role_checker_trusts_token(token, roles) ==
    IF get_current_user(token) # 200 THEN get_current_user(token)
    ELSE IF token.role \notin roles THEN 403
    ELSE 200

\* require_roles(*roles): 403 unless the stored role is one of roles
role_checker(token, roles) ==
    IF get_current_user(token) # 200 THEN get_current_user(token)
    ELSE IF CurrentUser(token).role \notin roles THEN 403
    ELSE 200

\* one write-role set passed to every route
AllowedRolesWriters(op) == {"admin", "hospital_staff", "lab_tech"}

\* the allowed-role set each route passes to require_roles
AllowedRoles(op) ==
    CASE op = "register_user"   -> {"admin"}
      [] op = "create_patient"  -> {"admin", "hospital_staff"}
      [] op = "list_patients"   -> {"admin", "hospital_staff", "lab_tech", "viewer"}
      [] op = "get_patient"     -> {"admin", "hospital_staff", "lab_tech", "viewer"}
      [] op = "update_patient"  -> {"admin", "hospital_staff"}
      [] op = "delete_patient"  -> {"admin"}
      [] op = "create_test"     -> {"admin", "lab_tech"}
      [] op = "list_tests"      -> {"admin", "hospital_staff", "lab_tech", "viewer"}
      [] op = "update_test"     -> {"admin", "lab_tech"}
      [] op = "delete_test"     -> {"admin"}
      [] op = "create_referral" -> {"admin", "hospital_staff"}
      [] op = "list_referrals"  -> {"admin", "hospital_staff", "lab_tech", "viewer"}
      [] op = "update_referral" -> {"admin", "lab_tech"}
      [] op = "create_result"   -> {"admin", "lab_tech"}
      [] op = "list_results"    -> {"admin", "hospital_staff", "lab_tech", "viewer"}
      [] op = "update_result"   -> {"admin", "lab_tech"}

\* the response of a request that failed in a dependency
AuthDetail(status) ==
    IF status = 401 THEN "Could not validate credentials" ELSE "Insufficient permissions"

Challenge(status) == IF status = 401 THEN "Bearer" ELSE None

Exchange(op, token, id, body, status, challenge, out) ==
    [op |-> op, tok |-> token, id |-> id, body |-> body, status |-> status,
     challenge |-> challenge, out |-> out]

NoToken == [sub |-> None, role |-> None, exp |-> 0, sig |-> None]
NoBody == [none |-> None]

----------------------------------------------------------------------------
\* Inputs

UserNames == {"Ann"}
Emails == {"a@lab.local"}
Passwords == {"pw1"}
LoginEmails == Emails \cup {SeedEmail, "nobody@lab.local"}
LoginPasswords == Passwords \cup {SeedPassword}

\* UserCreate request bodies
UserCreateBodies == [name : UserNames, email : Emails, password : Passwords, role : Roles]

NoPayload == [name |-> None, email |-> None, password |-> None, role |-> None]
IdleThread == [pc |-> "idle", payload |-> NoPayload, tok |-> NoToken, snap |-> 0]

\* a forged token: a payload signed with another key
ForgedToken == [sub |-> OidStr(1), role |-> "admin", exp |-> ACCESS_TOKEN_EXPIRE_MINUTES,
                sig |-> "otherkey"]

PresentableTokens == tokens \cup {ForgedToken}

\* the pool hands a request to its first free worker thread
FreeThread(t) ==
    /\ threads[t].pc = "idle"
    /\ \A u \in Threads : threads[u].pc = "idle" => t <= u

\* one protected request is sent and the clock moves on
Tick ==
    /\ quota > 0
    /\ quota' = quota - 1
    /\ now' = now + 1

\* the response of a request stopped by get_current_user or require_roles
Rejected(op, token, id, body, st) ==
    /\ last' = Exchange(op, token, id, body, st, Challenge(st), AuthDetail(st))
    /\ UNCHANGED <<db, idCtr>>

----------------------------------------------------------------------------
\* POST /auth/register (def handler: dependency, find_one, insert_one)

UserPublicOf(user) ==
    [id |-> user.id, name |-> user.name, email |-> user.email, role |-> user.role,
     is_active |-> user.is_active]

\* the dependency require_roles("admin") resolves before the handler is
\* handed to a worker thread
StartRegister(t, token, payload) ==
    /\ FreeThread(t)
    /\ quota > 0
    /\ quota' = quota - 1
    /\ LET st == role_checker(token, AllowedRoles("register_user"))
       IN  IF st # 200
           THEN /\ Rejected("register_user", token, None, payload, st)
                /\ UNCHANGED threads
           ELSE /\ threads' = [threads EXCEPT ![t] =
                       [pc |-> "reg_find", payload |-> payload, tok |-> token, snap |-> 0]]
                /\ UNCHANGED <<db, idCtr, last>>
    /\ UNCHANGED <<now, tokens, registered, seedCreated, envSteps>>

\* a register that skips the lookup by email
RegisterFindNoLookup(t) ==
    /\ threads[t].pc = "reg_find"
    /\ threads' = [threads EXCEPT ![t].pc = "reg_insert", ![t].snap = Len(db["user"])]
    /\ UNCHANGED <<db, idCtr, now, tokens, last, registered, seedCreated, envSteps, quota>>

\* if db["user"].find_one({"email": payload.email}): raise 400
RegisterFind(t) ==
    /\ threads[t].pc = "reg_find"
    /\ IF FindOne("user", "email", threads[t].payload.email) # 0
       THEN /\ last' = Exchange("register_user", threads[t].tok, None, threads[t].payload,
                                400, None, "Email already registered")
            /\ threads' = [threads EXCEPT ![t] = IdleThread]
       ELSE /\ threads' = [threads EXCEPT ![t].pc = "reg_insert",
                                          ![t].snap = Len(db["user"])]
            /\ UNCHANGED last
    /\ UNCHANGED <<db, idCtr, now, tokens, registered, seedCreated, envSteps, quota>>

UserDoc(name, email, password, role) ==
    [name |-> name, email |-> email, password_hash |-> hash_password(password),
     role |-> role, is_active |-> TRUE, created_at |-> now, updated_at |-> now]

\* insert_one(user_doc) and the UserPublic response
RegisterInsert(t) ==
    /\ threads[t].pc = "reg_insert"
    /\ LET p == threads[t].payload
           doc == UserDoc(p.name, p.email, p.password, p.role)
           user == serialize_doc(doc @@ [_id |-> OidStr(idCtr + 1)])
       IN  /\ InsertOne("user", doc)
           /\ last' = Exchange("register_user", threads[t].tok, None, p, 200, None,
                               UserPublicOf(user))
           /\ registered' = registered \cup
                  {[id |-> user.id, email |-> p.email, password |-> p.password,
                    role |-> p.role]}
    /\ threads' = [threads EXCEPT ![t] = IdleThread]
    /\ UNCHANGED <<now, tokens, seedCreated, envSteps, quota>>

----------------------------------------------------------------------------
\* POST /auth/seed-admin (def handler: count_documents, insert_one)

SeedCount(t) ==
    /\ FreeThread(t)
    /\ IF CountDocuments("user", "role", "admin") > 0
       THEN /\ last' = Exchange("seed_admin", NoToken, None, NoBody, 200, None,
                                "Admin exists")
            /\ UNCHANGED threads
       ELSE /\ threads' = [threads EXCEPT ![t] =
                    [pc |-> "seed_insert", payload |-> NoPayload, tok |-> NoToken,
                     snap |-> Len(db["user"])]]
            /\ UNCHANGED last
    /\ UNCHANGED <<db, idCtr, now, tokens, registered, seedCreated, envSteps, quota>>

SeedInsert(t) ==
    /\ threads[t].pc = "seed_insert"
    /\ InsertOne("user", UserDoc(SeedName, SeedEmail, SeedPassword, "admin"))
    /\ last' = Exchange("seed_admin", NoToken, None, NoBody, 200, None, "Admin seeded")
    /\ seedCreated' = seedCreated + 1
    /\ threads' = [threads EXCEPT ![t] = IdleThread]
    /\ UNCHANGED <<now, tokens, registered, envSteps, quota>>

----------------------------------------------------------------------------
\* POST /auth/login (one store call: find_one by email)

LoginBody(email, password) == [username |-> email, password |-> password]

login(email, password) ==
    LET i == FindOne("user", "email", email)
    IN  /\ IF i = 0 \/ ~verify_password(password, db["user"][IF i = 0 THEN 1 ELSE i].password_hash)
           THEN /\ last' = Exchange("login", NoToken, None, LoginBody(email, password),
                                    400, None, "Incorrect email or password")
                /\ UNCHANGED tokens
           ELSE LET token == create_access_token(db["user"][i]["_id"], db["user"][i].role)
                IN  /\ last' = Exchange("login", NoToken, None, LoginBody(email, password),
                                        200, None, token)
                    /\ tokens' = tokens \cup {token}
        /\ UNCHANGED <<db, idCtr, now, threads, registered, seedCreated, envSteps, quota>>

----------------------------------------------------------------------------
\* The authentication service on an empty store

EmptyDb == [c \in Collections |-> <<>>]
NoExchange == Exchange("none", NoToken, None, NoBody, 0, None, None)

InitAuth ==
    /\ db = EmptyDb
    /\ idCtr = 0
    /\ now = 0
    /\ tokens = {}
    /\ threads = [t \in Threads |-> IdleThread]
    /\ last = NoExchange
    /\ registered = {}
    /\ seedCreated = 0
    /\ envSteps = 0
    /\ quota = MaxRegisterRequests

NextAuth ==
    \/ \E t \in Threads, token \in PresentableTokens, payload \in UserCreateBodies :
           StartRegister(t, token, payload)
    \/ \E t \in Threads : RegisterFind(t)
    \/ \E t \in Threads : RegisterInsert(t)
    \/ \E t \in Threads : SeedCount(t)
    \/ \E t \in Threads : SeedInsert(t)
    \/ \E email \in LoginEmails, password \in LoginPasswords : login(email, password)

SpecAuth == InitAuth /\ [][NextAuth]_vars

----------------------------------------------------------------------------
\* Request bodies of the resource routes.  A body holds the fields the
\* client sent; model_dump adds every other field of the schema with its
\* default.

PatientInRequired == {"first_name", "last_name"}
PatientInDefaults ==
    [date_of_birth |-> None, gender |-> None, phone |-> None, email |-> None,
     hospital_id |-> None]
PatientBodies ==
    {[first_name |-> "Ada", last_name |-> "Low"],
     [first_name |-> "Ada", last_name |-> "Low", phone |-> "555"]}

TestCatalogInRequired == {"code", "name"}
TestCatalogInDefaults ==
    [description |-> None, sample_type |-> None, price |-> None, tat_hours |-> None]
TestCatalogBodies ==
    {[code |-> "CBC", name |-> "Blood count"],
     [code |-> "CBC", name |-> "Blood count", price |-> "12.50"]}

ReferralInRequired == {"patient_id"}
ReferralInDefaults ==
    [hospital_id |-> None, ordered_by |-> None, tests |-> "[]", priority |-> "normal",
     notes |-> None]
ReferralBodies ==
    {[patient_id |-> "p1"],
     [patient_id |-> "p1", ordered_by |-> "dr-x", notes |-> "fasting"]}

TestResultInRequired == {"referral_id", "test_code"}
TestResultInDefaults ==
    [value |-> None, unit |-> None, reference_range |-> None, status |-> "pending"]
TestResultBodies ==
    {[referral_id |-> "r1", test_code |-> "CBC"],
     [referral_id |-> "r1", test_code |-> "CBC", value |-> "5.1"]}

\* Dict[str, Any] bodies of PUT /referrals/{id} and PUT /results/{id}
ReferralUpdates == {[status |-> "received"], [priority |-> "stat", notes |-> "call"]}
TestResultUpdates == {[status |-> "verified", reviewed_by |-> "oid1"], [value |-> "7.0"]}

\* body.model_dump(): every field of the schema, the defaults where the
\* client sent nothing
model_dump(required, defaults, body) ==
    [f \in required \cup DOMAIN defaults |->
        IF f \in DOMAIN body THEN body[f] ELSE defaults[f]]

\* dict.setdefault(key, value): sets the key only when the dict lacks it
setdefault(doc, key, value) ==
    IF key \in DOMAIN doc THEN doc ELSE doc @@ (key :> value)

\* path ids a client may send: the id of each stored document, a well-formed
\* id of no document, and one that is no ObjectId
PathIds(coll) == {db[coll][i]["_id"] : i \in 1..Len(db[coll])} \cup {AbsentOid, MalformedId}

ServerError(op, token, id, body) ==
    /\ last' = Exchange(op, token, id, body, 500, None, "Internal Server Error")
    /\ UNCHANGED <<db, idCtr>>

Frame == UNCHANGED <<tokens, threads, registered, seedCreated, envSteps>>

----------------------------------------------------------------------------
\* The handler bodies shared by the resource routes

\* doc.update(created_at, updated_at); insert_one; serialize_doc
InsertAndReturn(coll, op, token, body, doc) ==
    LET stamped == [created_at |-> now, updated_at |-> now] @@ doc
    IN  /\ InsertOne(coll, stamped)
        /\ last' = Exchange(op, token, None, body, 200, None,
                            serialize_doc(stamped @@ [_id |-> OidStr(idCtr + 1)]))

\* update["updated_at"] = now; $set; find_one; 404 if not doc
SetAndReturn(coll, op, token, id, body, update, detail) ==
    IF ~ObjectIdValid(id) THEN ServerError(op, token, id, body)
    ELSE LET newdb == UpdateOneSet(coll, id, [updated_at |-> now] @@ update)
             j == FindIn(newdb[coll], "_id", id)
         IN  /\ db' = newdb
             /\ UNCHANGED idCtr
             /\ last' = IF j = 0
                        THEN Exchange(op, token, id, body, 404, None, detail)
                        ELSE Exchange(op, token, id, body, 200, None,
                                      serialize_doc(newdb[coll][j]))

\* delete_one; {"ok": True}
DeleteAndReturn(coll, op, token, id) ==
    IF ~ObjectIdValid(id) THEN ServerError(op, token, id, NoBody)
    ELSE /\ db' = DeleteOne(coll, id)
         /\ UNCHANGED idCtr
         /\ last' = Exchange(op, token, id, NoBody, 200, None, "ok")

\* find().sort().limit(): the documents returned, serialised
ListAndReturn(coll, op, token, limit) ==
    /\ last' = Exchange(op, token, None, NoBody, 200, None,
                        {serialize_doc(db[coll][i]) :
                            i \in {k \in 1..Len(db[coll]) : Len(db[coll]) - k < limit}})
    /\ UNCHANGED <<db, idCtr>>

----------------------------------------------------------------------------
\* GET /auth/me

me(token) ==
    /\ Tick /\ Frame
    /\ LET st == get_current_user(token)
       IN  IF st # 200 THEN Rejected("me", token, None, NoBody, st)
           ELSE /\ last' = Exchange("me", token, None, NoBody, 200, None,
                                    UserPublicOf(CurrentUser(token)))
                /\ UNCHANGED <<db, idCtr>>

----------------------------------------------------------------------------
\* Patients

create_patient(token, body) ==
    /\ Tick /\ Frame
    /\ LET st == role_checker(token, AllowedRoles("create_patient"))
       IN  IF st # 200 THEN Rejected("create_patient", token, None, body, st)
           ELSE InsertAndReturn("patient", "create_patient", token, body,
                                model_dump(PatientInRequired, PatientInDefaults, body))

list_patients(token) ==
    /\ Tick /\ Frame
    /\ LET st == role_checker(token, AllowedRoles("list_patients"))
       IN  IF st # 200 THEN Rejected("list_patients", token, None, NoBody, st)
           ELSE ListAndReturn("patient", "list_patients", token, 200)

get_patient(token, patient_id) ==
    /\ Tick /\ Frame
    /\ LET st == role_checker(token, AllowedRoles("get_patient"))
           i == FindOne("patient", "_id", patient_id)
       IN  IF st # 200 THEN Rejected("get_patient", token, patient_id, NoBody, st)
           ELSE IF ~ObjectIdValid(patient_id)
                THEN ServerError("get_patient", token, patient_id, NoBody)
           ELSE /\ last' = IF i = 0
                           THEN Exchange("get_patient", token, patient_id, NoBody, 404,
                                         None, "Patient not found")
                           ELSE Exchange("get_patient", token, patient_id, NoBody, 200,
                                         None, serialize_doc(db["patient"][i]))
                /\ UNCHANGED <<db, idCtr>>

update_patient(token, patient_id, body) ==
    /\ Tick /\ Frame
    /\ LET st == role_checker(token, AllowedRoles("update_patient"))
       IN  IF st # 200 THEN Rejected("update_patient", token, patient_id, body, st)
           ELSE SetAndReturn("patient", "update_patient", token, patient_id, body,
                             model_dump(PatientInRequired, PatientInDefaults, body),
                             "Patient not found")

delete_patient(token, patient_id) ==
    /\ Tick /\ Frame
    /\ LET st == role_checker(token, AllowedRoles("delete_patient"))
       IN  IF st # 200 THEN Rejected("delete_patient", token, patient_id, NoBody, st)
           ELSE DeleteAndReturn("patient", "delete_patient", token, patient_id)

----------------------------------------------------------------------------
\* Test catalog

create_test(token, body) ==
    /\ Tick /\ Frame
    /\ LET st == role_checker(token, AllowedRoles("create_test"))
       IN  IF st # 200 THEN Rejected("create_test", token, None, body, st)
           ELSE InsertAndReturn("testcatalog", "create_test", token, body,
                                model_dump(TestCatalogInRequired, TestCatalogInDefaults, body))

list_tests(token) ==
    /\ Tick /\ Frame
    /\ LET st == role_checker(token, AllowedRoles("list_tests"))
       IN  IF st # 200 THEN Rejected("list_tests", token, None, NoBody, st)
           ELSE ListAndReturn("testcatalog", "list_tests", token, 500)

update_test(token, test_id, body) ==
    /\ Tick /\ Frame
    /\ LET st == role_checker(token, AllowedRoles("update_test"))
       IN  IF st # 200 THEN Rejected("update_test", token, test_id, body, st)
           ELSE SetAndReturn("testcatalog", "update_test", token, test_id, body,
                             model_dump(TestCatalogInRequired, TestCatalogInDefaults, body),
                             "Test not found")

delete_test(token, test_id) ==
    /\ Tick /\ Frame
    /\ LET st == role_checker(token, AllowedRoles("delete_test"))
       IN  IF st # 200 THEN Rejected("delete_test", token, test_id, NoBody, st)
           ELSE DeleteAndReturn("testcatalog", "delete_test", token, test_id)

----------------------------------------------------------------------------
\* Referrals

create_referral(token, body) ==
    /\ Tick /\ Frame
    /\ LET st == role_checker(token, AllowedRoles("create_referral"))
           dumped == model_dump(ReferralInRequired, ReferralInDefaults, body)
           doc == setdefault(setdefault(dumped, "status", "pending"),
                             "ordered_by", CurrentUser(token).id)
       IN  IF st # 200 THEN Rejected("create_referral", token, None, body, st)
           ELSE InsertAndReturn("referral", "create_referral", token, body, doc)

list_referrals(token) ==
    /\ Tick /\ Frame
    /\ LET st == role_checker(token, AllowedRoles("list_referrals"))
       IN  IF st # 200 THEN Rejected("list_referrals", token, None, NoBody, st)
           ELSE ListAndReturn("referral", "list_referrals", token, 200)

update_referral(token, ref_id, update) ==
    /\ Tick /\ Frame
    /\ LET st == role_checker(token, AllowedRoles("update_referral"))
       IN  IF st # 200 THEN Rejected("update_referral", token, ref_id, update, st)
           ELSE SetAndReturn("referral", "update_referral", token, ref_id, update, update,
                             "Referral not found")

----------------------------------------------------------------------------
\* Results

create_result(token, body) ==
    /\ Tick /\ Frame
    /\ LET st == role_checker(token, AllowedRoles("create_result"))
       IN  IF st # 200 THEN Rejected("create_result", token, None, body, st)
           ELSE InsertAndReturn("testresult", "create_result", token, body,
                                model_dump(TestResultInRequired, TestResultInDefaults, body))

list_results(token) ==
    /\ Tick /\ Frame
    /\ LET st == role_checker(token, AllowedRoles("list_results"))
       IN  IF st # 200 THEN Rejected("list_results", token, None, NoBody, st)
           ELSE ListAndReturn("testresult", "list_results", token, 200)

update_result(token, result_id, update) ==
    /\ Tick /\ Frame
    /\ LET st == role_checker(token, AllowedRoles("update_result"))
       IN  IF st # 200 THEN Rejected("update_result", token, result_id, update, st)
           ELSE SetAndReturn("testresult", "update_result", token, result_id, update, update,
                             "Result not found")

----------------------------------------------------------------------------
\* The resource routes, called by the seeded admin

\* the store after seed-admin, holding the token of the admin's login
SeededUsers == <<UserDoc(SeedName, SeedEmail, SeedPassword, "admin") @@ [_id |-> OidStr(1)]>>

InitResources ==
    /\ now = 0
    /\ db = [EmptyDb EXCEPT !["user"] = SeededUsers]
    /\ idCtr = 1
    /\ tokens = {create_access_token(OidStr(1), "admin")}
    /\ threads = [t \in Threads |-> IdleThread]
    /\ last = NoExchange
    /\ registered = {}
    /\ seedCreated = 1
    /\ envSteps = 0
    /\ quota = MaxResourceRequests

NextResources ==
    \/ \E token \in PresentableTokens : me(token)
    \/ \E token \in PresentableTokens, body \in PatientBodies : create_patient(token, body)
    \/ \E token \in PresentableTokens : list_patients(token)
    \/ \E token \in PresentableTokens, id \in PathIds("patient") : get_patient(token, id)
    \/ \E token \in PresentableTokens, id \in PathIds("patient"), body \in PatientBodies :
           update_patient(token, id, body)
    \/ \E token \in PresentableTokens, id \in PathIds("patient") : delete_patient(token, id)
    \/ \E token \in PresentableTokens, body \in TestCatalogBodies : create_test(token, body)
    \/ \E token \in PresentableTokens : list_tests(token)
    \/ \E token \in PresentableTokens, id \in PathIds("testcatalog"), body \in TestCatalogBodies :
           update_test(token, id, body)
    \/ \E token \in PresentableTokens, id \in PathIds("testcatalog") : delete_test(token, id)
    \/ \E token \in PresentableTokens, body \in ReferralBodies : create_referral(token, body)
    \/ \E token \in PresentableTokens : list_referrals(token)
    \/ \E token \in PresentableTokens, id \in PathIds("referral"), update \in ReferralUpdates :
           update_referral(token, id, update)
    \/ \E token \in PresentableTokens, body \in TestResultBodies : create_result(token, body)
    \/ \E token \in PresentableTokens : list_results(token)
    \/ \E token \in PresentableTokens, id \in PathIds("testresult"), update \in TestResultUpdates :
           update_result(token, id, update)

SpecResources == InitResources /\ [][NextResources]_vars

----------------------------------------------------------------------------
\* Edits of user records made in the store, outside the routes: the role
\* and active flag of a user change, or the record is removed

EnvSetRole(i, role) ==
    /\ envSteps < MaxEnvSteps
    /\ i \in 1..Len(db["user"])
    /\ db["user"][i].role # role
    /\ db' = [db EXCEPT !["user"][i].role = role]
    /\ envSteps' = envSteps + 1
    /\ UNCHANGED <<idCtr, now, tokens, threads, last, registered, seedCreated, quota>>

EnvSetActive(i, active) ==
    /\ envSteps < MaxEnvSteps
    /\ i \in 1..Len(db["user"])
    /\ db["user"][i].is_active # active
    /\ db' = [db EXCEPT !["user"][i].is_active = active]
    /\ envSteps' = envSteps + 1
    /\ UNCHANGED <<idCtr, now, tokens, threads, last, registered, seedCreated, quota>>

EnvDeleteUser(i) ==
    /\ envSteps < MaxEnvSteps
    /\ i \in 1..Len(db["user"])
    /\ db' = DeleteOne("user", db["user"][i]["_id"])
    /\ envSteps' = envSteps + 1
    /\ UNCHANGED <<idCtr, now, tokens, threads, last, registered, seedCreated, quota>>

----------------------------------------------------------------------------
\* The role gate: one user of each role, each holding the token of a login,
\* and an admin token whose validity window has passed

StaffUsers ==
    <<UserDoc(SeedName, SeedEmail, SeedPassword, "admin") @@ [_id |-> OidStr(1)],
      UserDoc("Ann", "hs@lab.local", "pw1", "hospital_staff") @@ [_id |-> OidStr(2)],
      UserDoc("Ann", "lt@lab.local", "pw1", "lab_tech") @@ [_id |-> OidStr(3)],
      UserDoc("Ann", "v@lab.local", "pw1", "viewer") @@ [_id |-> OidStr(4)]>>

ExpiredToken == [sub |-> OidStr(1), role |-> "admin", exp |-> -1, sig |-> SECRET_KEY]

Init ==
    /\ now = 0
    /\ db = [EmptyDb EXCEPT !["user"] = StaffUsers]
    /\ idCtr = 4
    /\ tokens = {create_access_token(StaffUsers[i]["_id"], StaffUsers[i].role) : i \in 1..4}
                    \cup {ExpiredToken}
    /\ threads = [t \in Threads |-> IdleThread]
    /\ last = NoExchange
    /\ registered = {[id |-> StaffUsers[i]["_id"], email |-> StaffUsers[i].email,
                      password |-> "pw1", role |-> StaffUsers[i].role] : i \in 2..4}
    /\ seedCreated = 1
    /\ envSteps = 0
    /\ quota = MaxGateRequests

Next ==
    \/ \E t \in Threads, token \in PresentableTokens, payload \in UserCreateBodies :
           StartRegister(t, token, payload)
    \/ \E t \in Threads : RegisterFind(t)
    \/ \E t \in Threads : RegisterInsert(t)
    \/ NextResources

Spec == Init /\ [][Next]_vars

----------------------------------------------------------------------------
\* Revocation: tokens issued to an admin and a viewer, whose records are
\* then edited in the store

RevocableUsers ==
    <<UserDoc(SeedName, SeedEmail, SeedPassword, "admin") @@ [_id |-> OidStr(1)],
      UserDoc("Ann", "v@lab.local", "pw1", "viewer") @@ [_id |-> OidStr(2)]>>

InitRevocation ==
    /\ now = 0
    /\ db = [EmptyDb EXCEPT !["user"] = RevocableUsers]
    /\ idCtr = 2
    /\ tokens = {create_access_token(RevocableUsers[i]["_id"], RevocableUsers[i].role) :
                    i \in 1..2}
    /\ threads = [t \in Threads |-> IdleThread]
    /\ last = NoExchange
    /\ registered = {[id |-> OidStr(2), email |-> "v@lab.local", password |-> "pw1",
                      role |-> "viewer"]}
    /\ seedCreated = 1
    /\ envSteps = 0
    /\ quota = MaxGateRequests

NextRevocation ==
    \/ \E i \in 1..Len(db["user"]), role \in Roles : EnvSetRole(i, role)
    \/ \E i \in 1..Len(db["user"]), active \in BOOLEAN : EnvSetActive(i, active)
    \/ \E i \in 1..Len(db["user"]) : EnvDeleteUser(i)
    \/ \E t \in Threads, token \in PresentableTokens, payload \in UserCreateBodies :
           StartRegister(t, token, payload)
    \/ \E t \in Threads : RegisterFind(t)
    \/ \E t \in Threads : RegisterInsert(t)
    \/ NextResources

SpecRevocation == InitRevocation /\ [][NextRevocation]_vars

----------------------------------------------------------------------------
\* Properties

\* the allowed-role sets as the specification's table states them
ClaimedRoles(op) ==
    IF op = "register_user" THEN {"admin"}
    ELSE IF op \in {"create_patient", "update_patient"} THEN {"admin", "hospital_staff"}
    ELSE IF op \in {"create_test", "update_test"} THEN {"admin", "lab_tech"}
    ELSE IF op \in {"delete_patient", "delete_test"} THEN {"admin"}
    ELSE IF op = "create_referral" THEN {"admin", "hospital_staff"}
    ELSE IF op \in {"update_referral", "create_result", "update_result"}
         THEN {"admin", "lab_tech"}
    ELSE Roles

GatedOps ==
    {"register_user", "create_patient", "list_patients", "get_patient", "update_patient",
     "delete_patient", "create_test", "list_tests", "update_test", "delete_test",
     "create_referral", "list_referrals", "update_referral", "create_result",
     "list_results", "update_result"}

UpdateOps == {"update_patient", "update_test", "update_referral", "update_result"}
PathIdOps == UpdateOps \cup {"get_patient", "delete_patient", "delete_test"}

CollectionOf(op) ==
    IF op \in {"get_patient", "update_patient", "delete_patient"} THEN "patient"
    ELSE IF op \in {"update_test", "delete_test"} THEN "testcatalog"
    ELSE IF op = "update_referral" THEN "referral"
    ELSE "testresult"

\* the stored record a token's subject names, 0 if none
StoredUser(token) == FindOne("user", "_id", token.sub)

\* the token is signed, unexpired and names a stored active user
LiveUser(token) ==
    /\ token.sig = SECRET_KEY
    /\ token.exp >= now
    /\ StoredUser(token) # 0
    /\ db["user"][StoredUser(token)].is_active

\* a step in which a request was answered (last' is its exchange)
Answered == quota' = quota - 1 /\ threads' = threads

\* a step in which a register request passed the gate
HandedToWorker(t) == quota' = quota - 1 /\ threads[t].pc = "idle" /\ threads'[t].pc = "reg_find"

UniqueEmails ==
    \A i, j \in 1..Len(db["user"]) :
        i # j => db["user"][i].email # db["user"][j].email

RegisteredIds == {r.id : r \in registered}

\* C1: a request carrying the valid token of a stored active user is answered
\* 403 and changes no document when the user's role is outside the route's
\* allowed set, and passes the gate when it is inside, for the allowed sets of
\* the specification's table.
C1_RoleGate ==
    [][/\ Answered /\ last'.op \in GatedOps /\ LiveUser(last'.tok) =>
            IF db["user"][StoredUser(last'.tok)].role \notin ClaimedRoles(last'.op)
            THEN last'.status = 403 /\ db' = db
            ELSE last'.status \notin {401, 403}
       /\ \A t \in Threads : HandedToWorker(t) =>
            /\ LiveUser(threads'[t].tok)
            /\ db["user"][StoredUser(threads'[t].tok)].role \in ClaimedRoles("register_user")
            /\ db' = db]_vars

\* a hospital_staff caller was refused update_referral
C1_Witness ==
    /\ last.op = "update_referral"
    /\ last.status = 403
    /\ last.tok.role = "hospital_staff"
    /\ LiveUser(last.tok)

\* C2 as stated: after a register succeeded, a login with its email and
\* password succeeds with a token naming the registered user's id and role.
C2_Original ==
    last.op = "login" =>
        \A r \in registered :
            (r.email = last.body.username /\ r.password = last.body.password) =>
                /\ last.status = 200
                /\ last.out.sub = r.id
                /\ last.out.role = r.role

\* C2 amended: the login returns the registered user's id and role provided
\* no other user record with the same email was stored before it.
C2_Amended ==
    last.op = "login" =>
        \A r \in registered :
            (/\ r.email = last.body.username
             /\ r.password = last.body.password
             /\ db["user"][FindOne("user", "email", r.email)]["_id"] = r.id) =>
                /\ last.status = 200
                /\ last.out.sub = r.id
                /\ last.out.role = r.role

\* a registered non-viewer logged in and was issued a token
C2_Witness ==
    /\ last.op = "login"
    /\ last.status = 200
    /\ \E r \in registered :
          r.email = last.body.username /\ r.id = last.out.sub /\ r.role = "lab_tech"

\* C3 as stated: a failed login, whether the email is unknown or the password
\* wrong, is answered 401 with a WWW-Authenticate challenge.
C3_Original ==
    (last.op = "login" /\ last.status # 200) =>
        last.status = 401 /\ last.challenge = "Bearer"

\* C4 as stated: at most one user is ever created by seed-admin, however the
\* requests interleave.
C4_Original == seedCreated <= 1

\* C5 as stated, for the records register creates: none shares its email with
\* another user record.
C5_Original ==
    \A i, j \in 1..Len(db["user"]) :
        (i # j /\ db["user"][i]["_id"] \in RegisteredIds) =>
            db["user"][i].email # db["user"][j].email

\* C5 amended: a register whose lookup finds its email stored answers 400 and
\* inserts nothing, and a register's insert made while the user store is as
\* its existence check saw it never makes two records share an email.
C5_Amended ==
    [][\A t \in Threads :
        /\ (/\ threads[t].pc = "reg_find"
            /\ threads'[t] # threads[t]
            /\ FindOne("user", "email", threads[t].payload.email) # 0) =>
                /\ last'.op = "register_user"
                /\ last'.status = 400
                /\ threads'[t].pc = "idle"
                /\ db' = db
        /\ (/\ threads[t].pc = "reg_insert"
            /\ threads'[t] # threads[t]
            /\ threads[t].snap = Len(db["user"])
            /\ UniqueEmails) => UniqueEmails']_vars

\* a register was refused because its email was stored, next to a registered user
C5_Witness ==
    /\ last.op = "register_user"
    /\ last.status = 400
    /\ registered # {}
    /\ UniqueEmails

\* C6 as stated: an accepted referral is stored and returned with status
\* pending and, when the body gives no ordered_by, with the caller's user id.
C6_Original ==
    (last.op = "create_referral" /\ last.status = 200) =>
        /\ last.out.status = "pending"
        /\ last.out.ordered_by =
               IF "ordered_by" \in DOMAIN last.body THEN last.body.ordered_by
               ELSE last.tok.sub
        /\ \E i \in 1..Len(db["referral"]) :
              /\ db["referral"][i]["_id"] = last.out.id
              /\ db["referral"][i].status = last.out.status
              /\ db["referral"][i].ordered_by = last.out.ordered_by

\* C7: an authorized update of a well-formed id that matches no stored
\* document is answered 404 and leaves every collection as it was.
C7_UpdateAbsentNotFound ==
    [][(/\ Answered
        /\ last'.op \in UpdateOps
        /\ LiveUser(last'.tok)
        /\ db["user"][StoredUser(last'.tok)].role \in ClaimedRoles(last'.op)
        /\ last'.id # MalformedId
        /\ FindOne(CollectionOf(last'.op), "_id", last'.id) = 0) =>
            last'.status = 404 /\ db' = db]_vars

\* an update of an absent referral id was answered 404 while a referral is stored
C7_Witness ==
    /\ last.op = "update_referral"
    /\ last.status = 404
    /\ last.id = AbsentOid
    /\ Len(db["referral"]) > 0

\* C8: the decision is taken from the stored record: a validly signed,
\* unexpired token is answered 401 when its user is gone or inactive,
\* whatever the role, and otherwise 403 or let through by the stored role.
C8_StoredRecordDecides ==
    [][/\ (Answered /\ last'.tok.sig = SECRET_KEY /\ last'.tok.exp >= now) =>
            IF ~LiveUser(last'.tok)
            THEN last'.status = 401 /\ last'.challenge = "Bearer" /\ db' = db
            ELSE IF last'.op = "me"
                 THEN /\ last'.status = 200
                      /\ last'.out.role = db["user"][StoredUser(last'.tok)].role
            ELSE IF db["user"][StoredUser(last'.tok)].role \notin ClaimedRoles(last'.op)
                 THEN last'.status = 403 /\ db' = db
            ELSE last'.status \notin {401, 403}
       /\ \A t \in Threads : HandedToWorker(t) =>
            /\ LiveUser(threads'[t].tok)
            /\ db["user"][StoredUser(threads'[t].tok)].role = "admin"]_vars

\* a token issued to an admin was refused after the stored role changed
C8_Witness ==
    /\ last.tok.sig = SECRET_KEY
    /\ last.tok.role = "admin"
    /\ last.status = 403
    /\ last.op = "delete_patient"
    /\ StoredUser(last.tok) # 0
    /\ db["user"][StoredUser(last.tok)].role # "admin"

\* C9 as stated: a successful update keeps every field the client did not
\* send (updated_at excepted), sets the fields it sent, and changes no other
\* document.
C9_Original ==
    [][(Answered /\ last'.op \in UpdateOps /\ last'.status = 200) =>
        LET c == CollectionOf(last'.op)
            i == FindOne(c, "_id", last'.id)
            sent == DOMAIN last'.body
        IN  /\ \A f \in DOMAIN db[c][i] \ ({"updated_at"} \cup sent) :
                  db'[c][i][f] = db[c][i][f]
            /\ \A f \in sent \ {"updated_at"} : db'[c][i][f] = last'.body[f]
            /\ \A c2 \in Collections :
                  /\ Len(db'[c2]) = Len(db[c2])
                  /\ \A k \in 1..Len(db[c2]) :
                        (c2 # c \/ k # i) => db'[c2][k] = db[c2][k]]_vars

\* C10 as stated: an authorized get, update or delete with a malformed path
\* id ends in a handled 404 or 400.
C10_Original ==
    (last.op \in PathIdOps /\ last.id = MalformedId /\ last.status \notin {401, 403}) =>
        last.status \in {400, 404}

====
